---- MODULE Spec2Model ----
(***************************************************************************)
(* A model of gitlab_audit_export.py: the date helpers (normalize_date,    *)
(* parse_date_any, within_range), the paginated GitLabClient._get, the     *)
(* local git parsers and collect_data.                                     *)
(*                                                                         *)
(* Python values are records with a tag t:                                 *)
(*   "none"   None                                                         *)
(*   "absent" a key that is missing from a JSON object                     *)
(*   "num"    a JSON value that is not a string (a number)                 *)
(*   "str"    a string; form "text" is free text (txt holds it), forms     *)
(*            "iso", "slash" and "free" are date strings of the instant    *)
(*            inst, with (tz) or without a UTC offset                      *)
(*   "dt"     a datetime of the instant inst, aware (tz) or naive          *)
(*   "dict"   a JSON object; its keys are the other fields of the record   *)
(* Instants are day numbers (date.toordinal()).                            *)
(***************************************************************************)
EXTENDS Integers, Sequences, FiniteSets, TLC

VARIABLES
    dtparser,    \* TRUE iff python-dateutil was imported (module global)
    args,        \* the parsed command line read by collect_data
    phase,       \* position of collect_data
    step,        \* "get" while inside GitLabClient._get, "body" otherwise
    start_date,  \* collect_data local
    end_date,    \* collect_data local
    proj_id,     \* collect_data local
    page,        \* _get: params['page']
    all_items,   \* _get: all_items
    fetched,     \* value returned (or exception raised) by the last _get
    requests,    \* the page parameter of every request issued by the running _get
    served,      \* the responses the running _get received
    got,         \* what each sub-step's source returned
    rows,        \* collect_data: rows
    printed,     \* diagnostics printed by collect_data
    used,        \* number of raw items and lines supplied so far
    wr           \* one call of within_range: arguments and result

vars == <<dtparser, args, phase, step, start_date, end_date, proj_id, page,
          all_items, fetched, requests, served, got, rows, printed, used, wr>>

----------------------------------------------------------------------------
(* Bounds *)

MaxPages == 3   \* pages one _get may be served
MaxItems == 2   \* raw items and lines supplied to one run of collect_data

----------------------------------------------------------------------------
(* Python values *)

V(t, form, inst, tz, txt) ==
    [t |-> t, form |-> form, inst |-> inst, tz |-> tz, txt |-> txt]

PyNone == V("none", "", 0, FALSE, "")
Absent == V("absent", "", 0, FALSE, "")
NonStr == V("num", "", 0, FALSE, "12345")
Str(txt) == V("str", "text", 0, FALSE, txt)
DateStr(form, inst, tz) == V("str", form, inst, tz, "")
DateTime(inst, tz) == V("dt", "", inst, tz, "")

\* Python truth value of v
Truthy(v) == ~(v.t \in {"none", "absent"} \/ v = Str(""))

\* a or b
PyOr(a, b) == IF Truthy(a) THEN a ELSE b

\* d.get(k)
DictGet(d, k) == IF d[k] = Absent THEN PyNone ELSE d[k]

\* d.get(k, default)
DictGetDefault(d, k, default) == IF d[k] = Absent THEN default ELSE d[k]

\* str(v) inside an f-string
Format(v) == IF v.t = "none" THEN "None" ELSE v.txt

\* s.replace('\n', ' ') on a message
ReplaceNewline(s) == IF s = Str("fix\nbug") THEN Str("fix bug") ELSE s

----------------------------------------------------------------------------
(* Dates *)

NowDay == 739924       \* datetime.now(), as a day number
MinDay == 1            \* datetime.min
DaysPerMonth == 30

Instants == {NowDay - 31, NowDay - 30, NowDay - 29}

\* s.replace('/', '-') on a date string
ReplaceSlash(s) == IF s.form = "slash" THEN [s EXCEPT !.form = "iso"] ELSE s

\* dtparser.parse(s): raises on text that is no date and on non-strings
DateutilParse(s) ==
    IF s.t = "str" /\ s.form \in {"iso", "slash", "free"}
    THEN [raised |-> FALSE, val |-> DateTime(s.inst, s.tz)]
    ELSE [raised |-> TRUE, val |-> PyNone]

\* datetime.fromisoformat(s)
FromIsoFormat(s) ==
    IF s.t = "str" /\ s.form = "iso"
    THEN [raised |-> FALSE, val |-> DateTime(s.inst, s.tz)]
    ELSE [raised |-> TRUE, val |-> PyNone]

\* dt.isoformat()
IsoFormat(dt) == DateStr("iso", dt.inst, dt.tz)

normalize_date(s) ==
    IF ~Truthy(s) THEN Str("")
    ELSE IF s.t = "dt" THEN IsoFormat(s)
    ELSE IF dtparser
         THEN LET p == DateutilParse(s)
              IN  IF p.raised THEN s ELSE IsoFormat(p.val)
    ELSE s

\* The result is [raised, val]: s.replace raises AttributeError on a value
\* that is not a string; a parse failure is caught and gives None.
parse_date_any(s) ==
    IF ~Truthy(s) THEN [raised |-> FALSE, val |-> PyNone]
    ELSE IF s.t # "str" THEN [raised |-> TRUE, val |-> PyNone]
    ELSE LET s2 == ReplaceSlash(s)
             p  == IF dtparser THEN DateutilParse(s2) ELSE FromIsoFormat(s2)
         IN  [raised |-> FALSE, val |-> IF p.raised THEN PyNone ELSE p.val]

\* a < b and a > b on datetimes raise TypeError when a is None and when one
\* side is aware and the other naive.
Comparable(a, b) == a.t = "dt" /\ b.t = "dt" /\ a.tz = b.tz

\* within_range with "return True" for every empty timestamp
within_range_empty_true(ts, start, end) ==
    IF ~Truthy(ts)
    THEN "True"
    ELSE LET p == parse_date_any(ts) IN
         IF p.raised THEN "False"
         ELSE IF Truthy(start) /\ ~Comparable(p.val, start) THEN "TypeError"
         ELSE IF Truthy(start) /\ p.val.inst < start.inst THEN "False"
         ELSE IF Truthy(end) /\ ~Comparable(p.val, end) THEN "TypeError"
         ELSE IF Truthy(end) /\ p.val.inst > end.inst THEN "False"
         ELSE "True"

\* The result is "True", "False" or "TypeError" (the exception that leaves
\* within_range).
within_range(ts, start, end) ==
    IF ~Truthy(ts)
    THEN IF Truthy(start) \/ Truthy(end) THEN "False" ELSE "True"
    ELSE LET p == parse_date_any(ts) IN
         IF p.raised THEN "False"
         ELSE IF Truthy(start) /\ ~Comparable(p.val, start) THEN "TypeError"
         ELSE IF Truthy(start) /\ p.val.inst < start.inst THEN "False"
         ELSE IF Truthy(end) /\ ~Comparable(p.val, end) THEN "TypeError"
         ELSE IF Truthy(end) /\ p.val.inst > end.inst THEN "False"
         ELSE "True"

----------------------------------------------------------------------------
(* Raw data the environment supplies *)

SeqsUpTo(S, n) == UNION {[1..k -> S] : k \in 0..n}

RECURSIVE Concat(_)
Concat(ss) == IF ss = <<>> THEN <<>> ELSE Head(ss) \o Concat(Tail(ss))

\* Timestamps found on remote items
ItemTs == {Absent, Str("garbage")}

\* Elements of GET .../repository/commits
CommitItems ==
    {[t |-> "dict", created_at |-> ca,
      committed_date |-> DateStr("iso", NowDay - 29, FALSE),
      author_name |-> d[1], author_email |-> Str("a@x.org"), id |-> Str("c1"),
      message |-> d[2], web_url |-> Str("http://c1")] :
        ca \in ItemTs,
        d \in {<<Str("alice"), Str("fix\nbug")>>, <<Absent, Str("fix\nbug")>>,
               <<Str("alice"), PyNone>>}}

TipCommit(cd, id, msg) ==
    [t |-> "dict", committed_date |-> cd, id |-> id, message |-> msg]

\* The {} of b.get('commit', {})
EmptyCommit == TipCommit(Absent, Absent, Absent)

\* The {} of (m.get('author') or {})
EmptyAuthor == [t |-> "dict", name |-> Absent]

\* Elements of GET .../repository/branches
BranchItems ==
    {[t |-> "dict", name |-> Str("main"), commit |-> c, web_url |-> Absent] :
        c \in {Absent, PyNone,
               TipCommit(DateStr("iso", NowDay - 29, TRUE), Str("c1"), Str("tip"))}}

\* Elements of GET .../merge_requests
MergeRequestItems ==
    {[t |-> "dict", updated_at |-> ua, state |-> d[1], author |-> d[2],
      sha |-> d[3], source_branch |-> Str("dev"), target_branch |-> d[4],
      title |-> Str("Add x"), web_url |-> Str("http://mr1")] :
        ua \in {DateStr("iso", NowDay - 29, FALSE), DateStr("slash", NowDay - 31, TRUE)},
        d \in {<<Str("merged"), [t |-> "dict", name |-> Str("bob")], Str("c2"), Str("main")>>,
               <<Absent, PyNone, PyNone, Absent>>}}

\* The object of GET /api/v4/projects/<path>, with and without its id
ProjectDicts == {[t |-> "dict", id |-> Str("42")], [t |-> "dict", id |-> Absent]}

List(items) == [t |-> "list", items |-> items]

ItemsOf(ph) ==
    CASE ph = "commits" -> CommitItems
      [] ph = "branches" -> BranchItems
      [] ph = "mrs" -> MergeRequestItems
      [] OTHER -> {}

\* Values of the X-Next-Page header
NextHeaders == {Absent, Str(""), Str("2")}

\* What session.get can produce for one request, with at most n items:
\* an exception, a non-ok status, or a JSON body with its next-page header.
\* The project endpoint answers with an object, a listing with an array.
Responses(ph, n) ==
    {[status |-> "exception", json |-> PyNone, next |-> Absent],
     [status |-> "http_error", json |-> PyNone, next |-> Absent]}
    \cup {[status |-> "ok", json |-> d, next |-> Absent] :
            d \in IF ph = "project" THEN ProjectDicts ELSE {}}
    \cup {[status |-> "ok", json |-> List(b), next |-> h] :
            b \in SeqsUpTo(ItemsOf(ph), n), h \in NextHeaders}

\* Lines of git log --all --pretty=format:%H|%an|%ae|%ad|%s --date=iso,
\* each as its '|'-separated pieces
LogLines ==
    {<<Str("c1"), Str("alice"), Str("a@x.org"), ad, Str("fix")>> :
        ad \in {DateStr("iso", NowDay - 31, TRUE), DateStr("iso", NowDay - 29, TRUE)}}
    \cup {<<Str("c3"), Str("bob"), Str("b@x.org"),
            DateStr("iso", NowDay - 29, TRUE), Str("a"), Str("b")>>,
          <<Str("c4"), Str("truncated")>>}

\* Lines of git reflog --date=iso, each as its ' '-separated pieces
ReflogLines ==
    {<<Str("c1")>>, <<Str("c1"), Str("HEAD@{0}:"), Str("commit")>>}

\* Outcome of run_git: the lines of its output, or a raised process error
GitOutputs(lines, n) ==
    {[raised |-> TRUE, lines |-> <<>>]}
    \cup {[raised |-> FALSE, lines |-> l] : l \in SeqsUpTo(lines, n)}

\* The two texts of --date-range
RangeStrs == {Str("garbage"), DateStr("slash", NowDay - 30, TRUE)}

\* Values of --months-back; 0 stands for an option that was not given
MonthsBack == {0, 1, 100000}

----------------------------------------------------------------------------
(* Events *)

Fields == {"source", "action_type", "user_name", "user_email", "timestamp",
           "ref", "commit_sha", "message", "url"}

Event(source, action_type, user_name, user_email, timestamp, ref, commit_sha, message, url) ==
    [source |-> Str(source), action_type |-> action_type,
     user_name |-> user_name, user_email |-> user_email,
     timestamp |-> timestamp, ref |-> ref, commit_sha |-> commit_sha,
     message |-> message, url |-> url]

\* A rows.insert(0, e) in the place of rows.append(e)
RowsPrepend(acc, e) == <<e>> \o acc

\* rows.append(e)
RowsAppend(acc, e) == Append(acc, e)

Raise == [kind |-> "raise", ev |-> PyNone]
Skip == [kind |-> "skip", ev |-> PyNone]
Add(ev) == [kind |-> "append", ev |-> ev]

\* One iteration of "for c in commits"
CommitStep(c) ==
    IF c.t # "dict" THEN Raise
    ELSE LET ts == normalize_date(PyOr(DictGet(c, "created_at"),
                                       DictGet(c, "committed_date")))
             w  == within_range(ts, start_date, end_date)
             m  == DictGetDefault(c, "message", Str(""))
         IN  IF w = "TypeError" THEN Raise
             ELSE IF w = "False" THEN Skip
             ELSE IF m.t # "str" THEN Raise
             ELSE Add(Event("gitlab_commit", Str("commit"),
                            DictGet(c, "author_name"), DictGet(c, "author_email"),
                            ts, Str(""), DictGet(c, "id"), ReplaceNewline(m),
                            DictGetDefault(c, "web_url", Str(""))))

\* One iteration of "for b in branches"
BranchStep(b) ==
    IF b.t # "dict" THEN Raise
    ELSE LET commit == DictGetDefault(b, "commit", EmptyCommit) IN
         IF commit.t # "dict" THEN Raise
         ELSE LET ts == normalize_date(DictGet(commit, "committed_date"))
                  w  == within_range(ts, start_date, end_date)
              IN  IF w = "TypeError" THEN Raise
                  ELSE IF w = "False" THEN Skip
                  ELSE Add(Event("gitlab_branch", Str("branch"), Str(""), Str(""),
                                 ts, DictGet(b, "name"), DictGet(commit, "id"),
                                 DictGetDefault(commit, "message", Str("")),
                                 DictGetDefault(b, "web_url", Str(""))))

\* One iteration of "for m in mrs"
MergeRequestStep(m) ==
    IF m.t # "dict" THEN Raise
    ELSE LET ts == normalize_date(DictGet(m, "updated_at"))
             w  == within_range(ts, start_date, end_date)
             author == PyOr(DictGet(m, "author"), EmptyAuthor)
         IN  IF w = "TypeError" THEN Raise
             ELSE IF w = "False" THEN Skip
             ELSE IF author.t # "dict" THEN Raise
             ELSE Add(Event("gitlab_merge_request",
                            Str("merge_request_" \o Format(DictGet(m, "state"))),
                            DictGet(author, "name"), Str(""), ts,
                            Str(Format(DictGet(m, "source_branch")) \o "->"
                                \o Format(DictGet(m, "target_branch"))),
                            DictGetDefault(m, "sha", Str("")),
                            DictGetDefault(m, "title", Str("")),
                            DictGetDefault(m, "web_url", Str(""))))

\* One iteration of "for entry in parse_git_log(...)" and of
\* "for entry in parse_reflog(...)"
EntryStep(entry) ==
    LET w == within_range(entry.timestamp, start_date, end_date)
    IN  IF w = "TypeError" THEN Raise
        ELSE IF w = "False" THEN Skip
        ELSE Add(entry)

StepOf(ph, x) ==
    CASE ph = "commits" -> CommitStep(x)
      [] ph = "branches" -> BranchStep(x)
      [] ph = "mrs" -> MergeRequestStep(x)
      [] OTHER -> EntryStep(x)

\* A for loop of collect_data over items, appending to acc; raised tells
\* that an exception left the loop, which keeps what was appended before
RECURSIVE Loop(_, _, _)
Loop(ph, items, acc) ==
    IF items = <<>> THEN [rows |-> acc, raised |-> FALSE]
    ELSE LET r == StepOf(ph, Head(items)) IN
         CASE r.kind = "raise" -> [rows |-> acc, raised |-> TRUE]
           [] r.kind = "skip" -> Loop(ph, Tail(items), acc)
           [] OTHER -> Loop(ph, Tail(items), RowsAppend(acc, r.ev))

----------------------------------------------------------------------------
(* Local git parsers *)

RECURSIVE JoinTxt(_, _)
JoinTxt(ps, sep) ==
    IF Len(ps) = 1 THEN ps[1].txt
    ELSE ps[1].txt \o sep \o JoinTxt(Tail(ps), sep)

\* line.split(sep, n) on a line given by its sep-separated pieces
Split(line, sep, n) ==
    IF Len(line) <= n + 1 THEN line
    ELSE SubSeq(line, 1, n) \o <<Str(JoinTxt(SubSeq(line, n + 1, Len(line)), sep))>>

RECURSIVE parse_git_log(_)
parse_git_log(lines) ==
    IF lines = <<>> THEN <<>>
    ELSE LET p == Split(Head(lines), "|", 4) IN
         IF Len(p) < 5 THEN parse_git_log(Tail(lines))
         ELSE <<Event("local_commit", Str("commit"), p[2], p[3], p[4], Str(""),
                      p[1], p[5], Str(""))>> \o parse_git_log(Tail(lines))

RECURSIVE parse_reflog(_)
parse_reflog(lines) ==
    IF lines = <<>> THEN <<>>
    ELSE LET parts == Split(Head(lines), " ", 1)
             msg   == IF Len(parts) > 1 THEN parts[2] ELSE Str("")
         IN  <<Event("local_reflog", Str("reflog"), Str(""), Str(""), Str(""),
                     Str(""), parts[1], msg, Str(""))>> \o parse_reflog(Tail(lines))

----------------------------------------------------------------------------
(* State machine of collect_data *)

Remote == {"project", "commits", "branches", "mrs"}
Sources == {"commits", "branches", "mrs", "gitlog", "reflog"}

Pending == [state |-> "pending", data |-> PyNone]
Raised == [state |-> "raised", data |-> PyNone]
Returned(data) == [state |-> "returned", data |-> data]

IdleCall == [ts |-> PyNone, start |-> PyNone, end |-> PyNone, result |-> "idle"]

\* args.project
GivenProject == Str("group/proj")

\* collect_data is run with python-dateutil installed (note 5 of the module
\* docstring); SpecRange covers within_range without it.
Init ==
    /\ dtparser = TRUE
    /\ args \in [remote : BOOLEAN, repo : BOOLEAN]
    /\ phase = "start"
    /\ step = "body"
    /\ start_date = PyNone
    /\ end_date = PyNone
    /\ proj_id = PyNone
    /\ page = Absent
    /\ all_items = <<>>
    /\ fetched = Pending
    /\ requests = <<>>
    /\ served = <<>>
    /\ got = [s \in Sources |-> Pending]
    /\ rows = <<>>
    /\ printed = {}
    /\ used = 0
    /\ wr = IdleCall

\* The sub-step that follows the remote part
AfterRemote == IF args.repo THEN "gitlog" ELSE "done"

\* The sub-step that follows ph in the text of collect_data
InOrder(ph) ==
    CASE ph = "start" -> IF args.remote THEN "project" ELSE AfterRemote
      [] ph = "project" -> "commits"
      [] ph = "commits" -> "branches"
      [] ph = "branches" -> "mrs"
      [] ph = "mrs" -> AfterRemote
      [] ph = "gitlog" -> "reflog"
      [] OTHER -> "done"

\* An except clause that returns from collect_data
SuccessorAbort(ph, raised) == IF raised THEN "done" ELSE InOrder(ph)

\* Where collect_data goes after sub-step ph; raised tells whether the
\* sub-step's except clause ran
Successor(ph, raised) == InOrder(ph)

\* A call of a GitLabClient method enters _get with fresh locals
EnterGet(ph) ==
    /\ step' = IF ph \in Remote THEN "get" ELSE "body"
    /\ page' = Absent
    /\ all_items' = <<>>
    /\ fetched' = Pending
    /\ requests' = <<>>
    /\ served' = <<>>

\* Lines 280-290: the filter window. An OverflowError of the date
\* arithmetic leaves collect_data.
ComputeWindow(months_back, date_range) ==
    /\ phase = "start"
    /\ LET overflow == months_back # 0
                       /\ NowDay - DaysPerMonth * months_back < MinDay
           start1 == IF months_back # 0
                     THEN DateTime(NowDay - DaysPerMonth * months_back, FALSE)
                     ELSE PyNone
       IN  IF overflow
           THEN /\ phase' = "raised"
                /\ UNCHANGED <<start_date, end_date, step, page, all_items,
                               fetched, requests, served>>
           ELSE /\ start_date' = IF date_range # <<>>
                                 THEN parse_date_any(date_range[1]).val
                                 ELSE start1
                /\ end_date' = IF date_range # <<>>
                               THEN parse_date_any(date_range[2]).val
                               ELSE PyNone
                /\ phase' = Successor("start", FALSE)
                /\ EnterGet(phase')
    /\ UNCHANGED <<dtparser, args, proj_id, got, rows, printed, used, wr>>

\* r.headers.get('X-Next-Page') or ''
NextPage(r) == PyOr(IF r.next = Absent THEN PyNone ELSE r.next, Str(""))

\* An all_items = data in the place of all_items.extend(data)
ExtendReplace(all, data) == data

\* all_items.extend(data)
Extend(all, data) == all \o data

\* The page parameter of the request that follows response r
PageParam(r) == NextPage(r)

\* Lines 128-141: one iteration of the loop of _get, on the response r.
\* The locals of _get end with the call.
GetStep(r) ==
    /\ phase \in Remote
    /\ step = "get"
    /\ IF r.status # "ok"
       THEN /\ fetched' = Raised
            /\ step' = "body"
            /\ all_items' = <<>>
            /\ page' = Absent
            /\ used' = used
       ELSE IF r.json.t = "dict"
       THEN /\ fetched' = Returned(r.json)
            /\ step' = "body"
            /\ all_items' = <<>>
            /\ page' = Absent
            /\ used' = used
       ELSE /\ used' = used + Len(r.json.items)
            /\ IF ~Truthy(NextPage(r))
               THEN /\ fetched' = Returned(List(Extend(all_items, r.json.items)))
                    /\ step' = "body"
                    /\ all_items' = <<>>
                    /\ page' = Absent
               ELSE /\ all_items' = Extend(all_items, r.json.items)
                    /\ page' = PageParam(r)
                    /\ UNCHANGED <<fetched, step>>
    /\ UNCHANGED <<dtparser, args, phase, start_date, end_date, proj_id, got,
                   rows, printed, wr>>

\* An iteration of _get inside collect_data
GetRequest(r) ==
    /\ GetStep(r)
    /\ UNCHANGED <<requests, served>>

\* An iteration of _get with its request and its response written down.
\* A listing has at most MaxPages pages.
ClientGet(r) ==
    /\ Len(served) + 1 = MaxPages
         => ~(r.status = "ok" /\ r.json.t = "list" /\ Truthy(NextPage(r)))
    /\ GetStep(r)
    /\ requests' = Append(requests, page)
    /\ served' = Append(served, r)

\* Lines 291-296
ResolveProject ==
    /\ phase = "project"
    /\ step = "body"
    /\ LET ok == fetched.state = "returned" /\ fetched.data.t = "dict"
                 /\ fetched.data.id # Absent
       IN  /\ proj_id' = IF ok THEN fetched.data.id ELSE GivenProject
           /\ printed' = IF ok THEN printed ELSE printed \cup {"project"}
           /\ phase' = Successor("project", ~ok)
    /\ EnterGet(phase')
    /\ UNCHANGED <<dtparser, args, start_date, end_date, got, rows, used, wr>>

\* The entries a try block of collect_data iterates over
Entries(ph, data) ==
    CASE ph = "gitlog" -> parse_git_log(data.items)
      [] ph = "reflog" -> parse_reflog(data.items)
      [] OTHER -> data.items

\* A try block of collect_data over what source ph returned
Collect(ph, outcome) ==
    LET res == IF outcome.state = "raised"
               THEN [rows |-> rows, raised |-> TRUE]
               ELSE Loop(ph, Entries(ph, outcome.data), rows)
    IN  /\ rows' = res.rows
        /\ printed' = IF res.raised THEN printed \cup {ph} ELSE printed
        /\ got' = [got EXCEPT ![ph] = outcome]
        /\ phase' = Successor(ph, res.raised)
        /\ EnterGet(phase')

\* Lines 298-316
CollectCommits ==
    /\ phase = "commits"
    /\ step = "body"
    /\ Collect("commits", fetched)
    /\ UNCHANGED <<dtparser, args, start_date, end_date, proj_id, used, wr>>

\* Lines 318-337
CollectBranches ==
    /\ phase = "branches"
    /\ step = "body"
    /\ Collect("branches", fetched)
    /\ UNCHANGED <<dtparser, args, start_date, end_date, proj_id, used, wr>>

\* Lines 339-357
CollectMergeRequests ==
    /\ phase = "mrs"
    /\ step = "body"
    /\ Collect("mrs", fetched)
    /\ UNCHANGED <<dtparser, args, start_date, end_date, proj_id, used, wr>>

\* Lines 361-368, on the outcome out of run_git
CollectLocalLog(out) ==
    /\ phase = "gitlog"
    /\ Collect("gitlog", IF out.raised THEN Raised
                         ELSE Returned(List(out.lines)))
    /\ used' = used + Len(out.lines)
    /\ UNCHANGED <<dtparser, args, start_date, end_date, proj_id, wr>>

\* Lines 369-378, on the outcome out of run_git
CollectReflog(out) ==
    /\ phase = "reflog"
    /\ Collect("reflog", IF out.raised THEN Raised
                         ELSE Returned(List(out.lines)))
    /\ used' = used + Len(out.lines)
    /\ UNCHANGED <<dtparser, args, start_date, end_date, proj_id, wr>>

Next ==
    \/ \E mb \in MonthsBack, dr \in {<<>>} \cup (RangeStrs \X RangeStrs) :
          ComputeWindow(mb, dr)
    \/ \E r \in Responses(phase, MaxItems - used) : GetRequest(r)
    \/ ResolveProject
    \/ CollectCommits
    \/ CollectBranches
    \/ CollectMergeRequests
    \/ \E out \in GitOutputs(LogLines, MaxItems - used) : CollectLocalLog(out)
    \/ \E out \in GitOutputs(ReflogLines, MaxItems - used) : CollectReflog(out)

Spec == Init /\ [][Next]_vars

\* One call of a GitLabClient method, observed from outside
InitGet ==
    /\ dtparser = FALSE
    /\ args = [remote |-> TRUE, repo |-> FALSE]
    /\ phase \in {"project", "branches", "mrs"}
    /\ step = "get"
    /\ start_date = PyNone
    /\ end_date = PyNone
    /\ proj_id = PyNone
    /\ page = Absent
    /\ all_items = <<>>
    /\ fetched = Pending
    /\ requests = <<>>
    /\ served = <<>>
    /\ got = [s \in Sources |-> Pending]
    /\ rows = <<>>
    /\ printed = {}
    /\ used = 0
    /\ wr = IdleCall

NextGet == \E r \in Responses(phase, MaxItems - used) : ClientGet(r)

SpecGet == InitGet /\ [][NextGet]_vars

\* One call of within_range
TsDomain ==
    {PyNone, Str(""), NonStr, Str("garbage")}
    \cup {DateStr(f, i, tz) : f \in {"iso", "slash", "free"}, i \in Instants,
                             tz \in BOOLEAN}

BoundDomain == {PyNone} \cup {DateTime(i, tz) : i \in Instants, tz \in BOOLEAN}

InitRange ==
    /\ dtparser \in BOOLEAN
    /\ args = [remote |-> FALSE, repo |-> FALSE]
    /\ phase = "idle"
    /\ step = "body"
    /\ start_date = PyNone
    /\ end_date = PyNone
    /\ proj_id = PyNone
    /\ page = Absent
    /\ all_items = <<>>
    /\ fetched = Pending
    /\ requests = <<>>
    /\ served = <<>>
    /\ got = [s \in Sources |-> Pending]
    /\ rows = <<>>
    /\ printed = {}
    /\ used = 0
    /\ wr \in [ts : TsDomain, start : BoundDomain, end : BoundDomain,
               result : {"pending"}]

WithinRangeCall ==
    /\ wr.result = "pending"
    /\ wr' = [wr EXCEPT !.result = within_range(wr.ts, wr.start, wr.end)]
    /\ UNCHANGED <<dtparser, args, phase, step, start_date, end_date, proj_id,
                   page, all_items, fetched, requests, served, got, rows,
                   printed, used>>

NextRange == WithinRangeCall

SpecRange == InitRange /\ [][NextRange]_vars

TypeOK ==
    /\ phase \in {"start", "project", "commits", "branches", "mrs", "gitlog",
                  "reflog", "done", "raised", "idle"}
    /\ step \in {"get", "body"}
    /\ used \in 0..MaxItems
    /\ Len(served) <= MaxPages

----------------------------------------------------------------------------
(* Properties *)

SourceName(ph) ==
    CASE ph = "commits" -> "gitlab_commit"
      [] ph = "branches" -> "gitlab_branch"
      [] ph = "mrs" -> "gitlab_merge_request"
      [] ph = "gitlog" -> "local_commit"
      [] OTHER -> "local_reflog"

\* Position of a source in the fetch order
Rank(source) ==
    CASE source = Str("gitlab_commit") -> 1
      [] source = Str("gitlab_branch") -> 2
      [] source = Str("gitlab_merge_request") -> 3
      [] source = Str("local_commit") -> 4
      [] OTHER -> 5

\* The events of one source in the result, in result order
EventsOf(ph) == SelectSeq(rows, LAMBDA e : e.source = Str(SourceName(ph)))

\* Whether the command line asks for sub-step ph
Configured(ph) == IF ph \in {"gitlog", "reflog"} THEN args.repo ELSE args.remote

\* What sub-step ph contributes when it runs alone on what its source returned
Alone(ph) ==
    IF got[ph].state = "returned"
    THEN Loop(ph, Entries(ph, got[ph].data), <<>>).rows
    ELSE <<>>

WindowActive == Truthy(start_date) \/ Truthy(end_date)

\* C1: when collect_data returns, every sub-step the command line asks for
\* has run, whichever other sub-steps failed, and every sub-step that did not
\* fail contributed exactly the events it contributes when run alone on the
\* same data; when the merge-request listing raised and commits and branches
\* did not fail, the result holds their events and no merge-request event.
C1_SubStepIsolation ==
    phase = "done" =>
        /\ \A ph \in Sources :
              Configured(ph) =>
                  /\ got[ph].state # "pending"
                  /\ ph \notin printed => EventsOf(ph) = Alone(ph)
        /\ (got["mrs"].state = "raised" /\ "commits" \notin printed
                /\ "branches" \notin printed)
              => /\ EventsOf("mrs") = <<>>
                 /\ EventsOf("commits") = Alone("commits")
                 /\ EventsOf("branches") = Alone("branches")
                 /\ "mrs" \in printed

C1_Witness ==
    /\ phase = "done"
    /\ got["mrs"].state = "raised"
    /\ "commits" \notin printed
    /\ "branches" \notin printed
    /\ EventsOf("commits") # <<>>
    /\ EventsOf("branches") # <<>>

\* C2: no exception leaves collect_data.
C2_NoExceptionEscapes == phase # "raised"

\* C3: for a timestamp that parses to an instant t, within_range returns true
\* iff start <= t for a set start and t <= end for a set end.
C3_InclusiveIff ==
    LET p == parse_date_any(wr.ts) IN
    (wr.result # "pending" /\ ~p.raised /\ p.val.t = "dt") =>
        wr.result = IF /\ Truthy(wr.start) => wr.start.inst <= p.val.inst
                       /\ Truthy(wr.end) => p.val.inst <= wr.end.inst
                    THEN "True" ELSE "False"

\* C4: with both bounds unset within_range is true for every timestamp; with
\* a bound set and an empty timestamp it is false.
C4_UnsetBoundsAndEmpty ==
    wr.result # "pending" =>
        /\ (~Truthy(wr.start) /\ ~Truthy(wr.end)) => wr.result = "True"
        /\ ((Truthy(wr.start) \/ Truthy(wr.end)) /\ ~Truthy(wr.ts))
              => wr.result = "False"

\* C5: for a non-empty timestamp that parse_date_any cannot parse and a window
\* with a bound set, within_range returns false.
C5_FailClosed ==
    LET p == parse_date_any(wr.ts) IN
    (wr.result # "pending" /\ Truthy(wr.ts) /\ wr.ts.t = "str"
        /\ p.val = PyNone /\ (Truthy(wr.start) \/ Truthy(wr.end)))
      => wr.result = "False"

IsListPage(r) == r.status = "ok" /\ r.json.t = "list"

\* Every page but the last carries a non-empty next-page header and the last
\* one an empty or absent one
WellFormedPages(pages) ==
    /\ Len(pages) >= 1
    /\ \A i \in 1..Len(pages) :
          /\ IsListPage(pages[i])
          /\ (i < Len(pages)) <=> (pages[i].next \notin {Absent, Str("")})

\* C6: _get goes on only after collection pages with a non-empty next-page
\* header; once the pages served are well formed it has returned, it has
\* issued one request per page, the first without a page parameter and every
\* later one with the previous response's next-page value, and its result is
\* the concatenation of the page bodies in order.
C6_Pagination ==
    /\ step = "get" =>
          \A i \in 1..Len(served) :
              IsListPage(served[i]) /\ served[i].next \notin {Absent, Str("")}
    /\ WellFormedPages(served) =>
          /\ step = "body"
          /\ Len(requests) = Len(served)
          /\ requests[1] = Absent
          /\ \A i \in 2..Len(requests) : requests[i] = served[i - 1].next
          /\ fetched = Returned(List(Concat([i \in 1..Len(served) |->
                                                served[i].json.items])))

C6_Witness ==
    /\ WellFormedPages(served)
    /\ Len(served) = MaxPages
    /\ Len(served[1].json.items) > 0
    /\ Len(served[MaxPages].json.items) > 0
    /\ step = "body"

\* C7: every event of the result has the nine fields and every field is a
\* string (the empty string when the raw item lacks the data).
C7_NineStringFields ==
    \A i \in 1..Len(rows) :
        /\ DOMAIN rows[i] = Fields
        /\ \A f \in Fields : rows[i][f].t = "str"

\* A subsequence of b, in b's order
RECURSIVE IsSubseq(_, _)
IsSubseq(a, b) ==
    IF a = <<>> THEN TRUE
    ELSE IF b = <<>> THEN FALSE
    ELSE IF Head(a) = Head(b) THEN IsSubseq(Tail(a), Tail(b))
    ELSE IsSubseq(a, Tail(b))

\* The event of every entry that maps to one, in the order of the entries
RECURSIVE Mapped(_, _)
Mapped(ph, entries) ==
    IF entries = <<>> THEN <<>>
    ELSE LET r == StepOf(ph, Head(entries)) IN
         (IF r.kind = "append" THEN <<r.ev>> ELSE <<>>)
             \o Mapped(ph, Tail(entries))

\* C8: in the rows, the events of an earlier source precede those of a later
\* one, and the events of one source are in the order in which the source
\* returned them.
C8_FetchOrder ==
    /\ \A i, j \in 1..Len(rows) :
          i < j => Rank(rows[i].source) <= Rank(rows[j].source)
    /\ \A ph \in Sources :
          got[ph].state = "returned"
              => IsSubseq(EventsOf(ph), Mapped(ph, Entries(ph, got[ph].data)))

C8_Witness ==
    /\ phase = "done"
    /\ Len(rows) = 2
    /\ rows[1].source = Str("gitlab_commit")
    /\ rows[2].source = Str("local_reflog")

\* C9: a remote sub-step during which an exception was raised contributes no
\* event.
C9_FailedContributesNothing ==
    \A ph \in {"commits", "branches", "mrs"} :
        ph \in printed => EventsOf(ph) = <<>>

\* C10: when collect_data returns with a filter window active the result
\* holds no reflog event; with no window and a reflog that was read, it holds
\* one reflog event per reflog line.
C10_ReflogUnderWindow ==
    phase = "done" =>
        /\ WindowActive => EventsOf("reflog") = <<>>
        /\ (~WindowActive /\ got["reflog"].state = "returned")
              => Len(EventsOf("reflog")) = Len(got["reflog"].data.items)

C10_Witness ==
    /\ phase = "done"
    /\ WindowActive
    /\ got["reflog"].state = "returned"
    /\ Len(got["reflog"].data.items) > 0

====
